---- MODULE Spec2Model ----
(***************************************************************************)
(* State-machine model of the ingestion pipeline of ncdhhs-pdf-qa.         *)
(*                                                                         *)
(* Spec      : backend/enhanced_main.py, one ingestion job: the request    *)
(*             handler process_website_async (sync and background path),   *)
(*             process_pdfs_background with its semaphore-guarded item     *)
(*             tasks, cancel_job, get_job_status, and the ConnectionManager*)
(*             with the websocket_progress handlers of the listeners.      *)
(*                                                                         *)
(* Scheduling: one asyncio event loop.  A step of the model runs a         *)
(* coroutine from one `await` to the next; every `await` of an I/O call    *)
(* (item processing, send_json, sleep) is a point where the other          *)
(* coroutines and request handlers may run.                                *)
(***************************************************************************)
EXTENDS Integers, Sequences, FiniteSets, TLC

\* ------------------------------------------------------------------ bounds
MaxItems == 4        \* links of a request when no listener is connected
MaxWsItems == 2      \* links of a request in the runs with listeners
MaxListeners == 2
MaxBatchItems == 4   \* links of a simple_bedrock_main / AsyncPDFProcessor batch
MaxConcurrent == 2   \* largest AsyncPDFProcessor(max_concurrent) tried
MaxRuns == 2         \* accepted /process-and-upload-pdfs requests of main.py
MaxMainItems == 2    \* links find_pdf_links returns to a run of main.py

\* ------------------------------------------------------- program constants
SemaphoreLimit == 5
SyncLimit == 5
UploadSemaphoreLimit == 3

Items == 1..MaxItems
Listeners == 1..MaxListeners
\* publishers of progress events: 0 is process_pdfs_background itself,
\* i >= 1 is the item task process_with_semaphore(url_i, i-1)
Publishers == 0..MaxItems
BatchItems == 1..MaxBatchItems
Runs == 1..MaxRuns
MainItems == 1..MaxMainItems
MaxClients == 3      \* WebSockets that connect to a ProgressiveProcessor
Clients == 1..MaxClients
MaxResults == 3      \* largest max_results / k of a question
\* similarity scores in tenths (5 stands for 0.5)
ScoreLevels == {2, 5, 8}
RelevanceThreshold == 5   \* main.py: `if top_score < 0.5`
\* main_container.query_bedrock's fallback: `context[:200]` and `context[:150]`
LongExcerpt == 200
ShortExcerpt == 150
MaxDocs == 2         \* documents held by the OpenSearch index
MaxIndexOps == 3     \* operations on the index in a run
\* create_embedding: `[0.0] * 1024` and `max_length = 8000`
EmbeddingDimension == 1024
MaxEmbeddingChars == 8000
MaxEmbedCalls == 2   \* create_embedding calls in a run
MaxStore == 3        \* documents in main_container's document_store
MaxTextLen == 3      \* characters of a text given to a chunker
MaxChunkSize == 3    \* largest small chunk_size tried
MaxChunks == 4       \* chunks chunk_text may collect before the run is cut off
\* main_container.find_relevant_documents: `'similarity': 0.8`, in tenths
MockSimilarity == 8
\* optimized_storage.create_text_chunks: `chunk_size - 100`
StorageOverlap == 100
\* chunk_text: `start + chunk_size - 200`
SentenceWindow == 200
TextLengths == {0, 8000, 8001}
\* dimensions of the vectors the embedding model returns
ReturnedDimensions == {256, 1024}
\* lengths of the retrieved context tried (around the two excerpt limits)
ContextLengths == {0, 150, 151, 200, 201}
\* what the fallback looks for in the question
QuestionKinds == {"what_document", "how_many", "other"}

VARIABLES
    \* ---- the request and its HTTP response (enhanced_main.process_website_async)
    response,           \* "none" | "pending" (handler running) | "500:extract" |
                        \* "500:no_links" | "queued" | "completed"
    n_links,            \* len(pdf_links) the handler went on with (-1: no request yet)
    local_results,      \* the sync path's local list `results`
    \* ---- the ProcessingJob in active_jobs ("none": job_id not in active_jobs)
    status, total_pdfs, processed, failed, results, error_messages,
    websocket_connections,
    \* ---- coroutines
    bgpc,               \* process_pdfs_background
    syncpc,             \* index of the item the sync loop awaits (0: not in it)
    taskpc,             \* item tasks of asyncio.gather
    semaphore,          \* value of asyncio.Semaphore(5)
    pub,                \* per publisher: position inside send_progress_update
    \* ---- listeners (websocket_progress handlers and their sockets)
    hpc, sock,
    heartbeats,         \* parity of the number of heartbeats the handlers have sent
    \* ---- observable responses of the other endpoints
    cancel_resp,        \* last cancel_job: [before |-> status seen, code |-> HTTP code]
    status_resp,        \* last get_job_status response: [code, status, processed,
                        \* failed, total, percentage] (code 0: none yet)
    progress_update,    \* the last "progress" message an item task built:
                        \* [current, total, processed, failed, percentage]
    \* ---- simple_bedrock_main.process_and_upload_pdfs and
    \*      AsyncPDFProcessor.direct_processing (one batch of one of the two)
    b_service,          \* "none" | "upload" (simple_bedrock_main) | "direct"
    b_pc,               \* "idle" | "gather" | "returned" | "http500"
    b_limit,            \* the value the batch's asyncio.Semaphore was created with
    b_sem,              \* the semaphore's current value
    b_task,             \* per item task: "none" | "created" | "running" | "done"
    b_result,           \* per item, the gather result: "none" | "success" | "failed" | "exception"
    cps,                \* simple_bedrock_main.current_processing_status
    b_response,         \* the counts the handler / direct_processing returns
    \* ---- main.py: the global processing_status and the background runs
    processing_status,  \* [status, progress, processed_count, total_count, errors]
    m_pc,               \* per run of process_pdfs_background: "idle" | "scheduled" |
                        \* "finding" | "loop" | "done"
    m_links,            \* per run: len(pdf_links)
    m_idx,              \* per run: the item the loop is at (1-based)
    m_uploaded,         \* per run: the local uploaded_count
    m_outcome,          \* per run and item: what happened to the item ("none" |
                        \* "uploaded" | "download_error" | "upload_failed")
    m_resp,             \* last /process-and-upload-pdfs HTTP code (0: none yet)
    \* ---- progressive_processor.ProgressiveProcessor
    active_connections, \* self.active_connections, a list of sockets
    pp_open,            \* sockets whose client is still there (a send to the others raises)
    pp_pc,              \* send_progress: "idle" | "sending" | "done"
    pp_idx,             \* position of the `for connection in self.active_connections` iterator
    pp_subscribed,      \* the sockets in the list when the current send_progress began
    pp_delivered,       \* the sockets the current message was sent to
    \* ---- the question endpoints (main.py, simple_bedrock_main.py,
    \*      main_with_opensearch.py), one question
    a_service,          \* "none" | "main" | "simple" | "opensearch"
    a_pc,               \* "idle" | "retrieved" (about to generate) | "done"
    a_max_results,      \* the request's max_results
    a_results,          \* the scores of the retrieved results, best first
    a_retrieval,        \* "none" | "ok" | "failed" (the retrieval call raised)
    a_invoked,          \* the generation model was invoked
    a_response,         \* [kind, sources, confidence] (confidence in tenths, -1: no such field)
    \* ---- query_bedrock (main_with_opensearch.py, main_container.py), one call
    g_variant,          \* "none" | "opensearch" | "container"
    g_pc,               \* "idle" | the tier about to be invoked | "done"
    g_question,         \* what the question asks for (one of QuestionKinds)
    g_context,          \* len(context)
    g_calls,            \* the tiers invoked so far, in order
    g_failed,           \* the tiers whose call raised or returned an empty text
    g_answer,           \* [by, form, excerpt, ellipsis]: the returned string
    \* ---- create_embedding (main_with_opensearch.py, main_container.py)
    e_variant,          \* "none" | "opensearch" | "container"
    e_pc,               \* "idle" | "invoking" | "returned"
    e_sent,             \* len(inputText) of the current call
    e_outcome,          \* what the remote call of the current / last call did
    e_result,           \* what the last call returned: [kind, dim]
    e_calls,            \* number of calls made
    e_embeddings,       \* the caller's list `embeddings` of the vectors returned
    \* ---- main_with_opensearch.py: the OpenSearch index and one operation on it
    x_exists,           \* the index exists on the cluster
    x_docs,             \* documents in the index
    x_op,               \* "none" | "search" (search_similar_chunks) | "get_all" | "store"
    x_pc,               \* "startup" | "idle" | "searching" | "storing" | "done"
    x_creates,          \* indices.create calls made by the operation
    x_attempts,         \* search calls made by the operation
    x_failure,          \* how the operation's search failed: "none" | "index_not_found" | "other"
    x_result,           \* what the caller got: "none" | "hits" | "empty" | "stored" | "not_stored"
    x_log,              \* the operations called so far, in order
    \* ---- the chunkers: chunk_text and the two create_text_chunks
    c_variant,          \* "none" | "opensearch" | "enhanced" | "storage"
    c_pc,               \* "idle" | "called" | "loop" | "returned"
    c_text,             \* the text, a sequence of characters
    c_size,             \* chunk_size
    c_overlap,          \* overlap
    c_start,            \* chunk_text's `start`
    c_chunks,           \* the chunks collected / returned
    c_raised,           \* the call raised (range() with step 0)
    \* ---- main_container.py: the in-memory stores and one search
    document_store,     \* the processed documents, in insertion order
    embeddings_store,   \* the embedded chunks, in insertion order
    s_pc,               \* "idle" | "returned"
    s_top_k,            \* top_k of the last search
    s_result            \* what find_relevant_documents returned

jobVars == <<status, total_pdfs, processed, failed, results, error_messages>>
reqVars == <<response, n_links, local_results>>
coVars == <<bgpc, syncpc, taskpc, semaphore>>
wsVars == <<websocket_connections, pub, hpc, sock, heartbeats>>
obsVars == <<cancel_resp, status_resp, progress_update>>
enhancedVars == <<reqVars, jobVars, coVars, wsVars, obsVars>>
batchVars == <<b_service, b_pc, b_limit, b_sem, b_task, b_result, cps, b_response>>
mainVars == <<processing_status, m_pc, m_links, m_idx, m_uploaded, m_outcome, m_resp>>
progressVars == <<active_connections, pp_open, pp_pc, pp_idx, pp_subscribed, pp_delivered>>
askVars == <<a_service, a_pc, a_max_results, a_results, a_retrieval, a_invoked, a_response>>
genVars == <<g_variant, g_pc, g_question, g_context, g_calls, g_failed, g_answer>>
embedVars == <<e_variant, e_pc, e_sent, e_outcome, e_result, e_calls, e_embeddings>>
indexVars == <<x_exists, x_docs, x_op, x_pc, x_creates, x_attempts, x_failure, x_result, x_log>>
chunkVars == <<c_variant, c_pc, c_text, c_size, c_overlap, c_start, c_chunks, c_raised>>
searchVars == <<document_store, embeddings_store, s_pc, s_top_k, s_result>>
vars == <<enhancedVars, batchVars, mainVars, progressVars, askVars, genVars, embedVars, indexVars, chunkVars, searchVars>>
\* what the actions of one service leave alone: the state of the other services
outsideEnhanced == <<batchVars, mainVars, progressVars, askVars, genVars, embedVars, indexVars, chunkVars, searchVars>>
outsideBatch == <<enhancedVars, mainVars, progressVars, askVars, genVars, embedVars, indexVars, chunkVars, searchVars>>
outsideMain == <<enhancedVars, batchVars, progressVars, askVars, genVars, embedVars, indexVars, chunkVars, searchVars>>
outsideProgress == <<enhancedVars, batchVars, mainVars, askVars, genVars, embedVars, indexVars, chunkVars, searchVars>>
outsideAsk == <<enhancedVars, batchVars, mainVars, progressVars, genVars, embedVars, indexVars, chunkVars, searchVars>>
outsideGen == <<enhancedVars, batchVars, mainVars, progressVars, askVars, embedVars, indexVars, chunkVars, searchVars>>
outsideEmbed == <<enhancedVars, batchVars, mainVars, progressVars, askVars, genVars, indexVars, chunkVars, searchVars>>
outsideIndex == <<enhancedVars, batchVars, mainVars, progressVars, askVars, genVars, embedVars, chunkVars, searchVars>>
outsideChunk == <<enhancedVars, batchVars, mainVars, progressVars, askVars, genVars, embedVars, indexVars, searchVars>>
outsideSearch == <<enhancedVars, batchVars, mainVars, progressVars, askVars, genVars, embedVars, indexVars, chunkVars>>

\* ------------------------------------------------------------- helpers
\* list.remove(x): drops the first occurrence of x (the caller checks membership)
Remove(s, x) ==
    LET k == CHOOSE j \in 1..Len(s) : s[j] = x /\ \A m \in 1..(j-1) : s[m] # x
    IN  SubSeq(s, 1, k-1) \o SubSeq(s, k+1, Len(s))

InSeq(s, x) == \E j \in 1..Len(s) : s[j] = x

Idle == [cur |-> 0, idx |-> 0, disc |-> <<>>]

\* --------------------------------------- ConnectionManager.send_progress_update
\* The removal loop at the end of send_progress_update: each connection collected
\* in `disconnected` is removed from job.websocket_connections; list.remove raises
\* ValueError when the connection is no longer in the list, which ends the loop.
RECURSIVE RemoveDisconnected(_, _)
RemoveDisconnected(conns, disc) ==
    IF disc = <<>> THEN [conns |-> conns, raised |-> FALSE]
    ELSE IF ~InSeq(conns, Head(disc)) THEN [conns |-> conns, raised |-> TRUE]
    ELSE RemoveDisconnected(Remove(conns, Head(disc)), Tail(disc))

\* The `for connection in job.websocket_connections` loop, from the point where
\* `idx` connections have been visited and `disc` collected: either the next
\* connection is fetched and its send_json awaited (fin = FALSE), or the list is
\* exhausted and the removal loop runs (fin = TRUE).
PublishAdvance(conns, idx, disc) ==
    IF idx < Len(conns)
    THEN [fin |-> FALSE, raised |-> FALSE, conns |-> conns,
          st |-> [cur |-> conns[idx + 1], idx |-> idx + 1, disc |-> disc]]
    ELSE LET r == RemoveDisconnected(conns, disc)
         IN  [fin |-> TRUE, raised |-> r.raised, conns |-> r.conns, st |-> Idle]

\* Entering send_progress_update (the job is in active_jobs): disconnected = []
PublishEnter(conns) == PublishAdvance(conns, 0, <<>>)

\* The awaited send_json of publisher p returns or raises: a closed socket raises
\* and the connection is appended to `disconnected`; then the loop goes on.
PublishResume(conns, st) ==
    LET d == IF sock[st.cur] = "open" THEN st.disc ELSE Append(st.disc, st.cur)
    IN  PublishAdvance(conns, st.idx, d)

\* --------------------------------------------------------------------- Init
NoJobStatus == [code |-> 0, status |-> "none", processed |-> 0, failed |-> 0,
                total |-> 0, percentage |-> 0]

\* no "progress" message was built yet
NoProgress == [current |-> 0, total |-> 0, processed |-> 0, failed |-> 0, percentage |-> 0]

InitEnhanced ==
    /\ response = "none"
    /\ n_links = -1
    /\ local_results = <<>>
    /\ status = "none"
    /\ total_pdfs = 0
    /\ processed = 0
    /\ failed = 0
    /\ results = <<>>
    /\ error_messages = <<>>
    /\ websocket_connections = <<>>
    /\ bgpc = "none"
    /\ syncpc = 0
    /\ taskpc = [i \in Items |-> "none"]
    /\ semaphore = SemaphoreLimit
    /\ pub = [p \in Publishers |-> Idle]
    /\ hpc = [l \in Listeners |-> "idle"]
    /\ sock = [l \in Listeners |-> "open"]
    /\ heartbeats = 0
    /\ cancel_resp = [before |-> "none", code |-> 0]
    /\ status_resp = NoJobStatus
    /\ progress_update = NoProgress

\* current_processing_status = None; no batch started
NoStatus == [status |-> "None", processed |-> 0, failed |-> 0, total |-> 0]
NoResponse == [code |-> 0, processed |-> 0, failed |-> 0, total |-> 0]

InitBatch ==
    /\ b_service = "none"
    /\ b_pc = "idle"
    /\ b_limit = 0
    /\ b_sem = 0
    /\ b_task = [i \in BatchItems |-> "none"]
    /\ b_result = [i \in BatchItems |-> "none"]
    /\ cps = NoStatus
    /\ b_response = NoResponse

\* main.py's module-level processing_status
IdleStatus == [status |-> "idle", progress |-> 0, processed_count |-> 0,
               total_count |-> 0, errors |-> <<>>]

InitMain ==
    /\ processing_status = IdleStatus
    /\ m_pc = [r \in Runs |-> "idle"]
    /\ m_links = [r \in Runs |-> 0]
    /\ m_idx = [r \in Runs |-> 0]
    /\ m_uploaded = [r \in Runs |-> 0]
    /\ m_outcome = [r \in Runs |-> [k \in MainItems |-> "none"]]
    /\ m_resp = 0

InitProgress ==
    /\ active_connections = <<>>
    /\ pp_open = {}
    /\ pp_pc = "idle"
    /\ pp_idx = 0
    /\ pp_subscribed = {}
    /\ pp_delivered = {}

NoAnswer == [kind |-> "none", sources |-> 0, confidence |-> 0]

InitAsk ==
    /\ a_service = "none"
    /\ a_pc = "idle"
    /\ a_max_results = 0
    /\ a_results = <<>>
    /\ a_retrieval = "none"
    /\ a_invoked = FALSE
    /\ a_response = NoAnswer

NoText == [by |-> "none", form |-> "none", excerpt |-> 0, ellipsis |-> FALSE]

InitGen ==
    /\ g_variant = "none"
    /\ g_pc = "idle"
    /\ g_question = "other"
    /\ g_context = 0
    /\ g_calls = <<>>
    /\ g_failed = {}
    /\ g_answer = NoText

NoVector == [kind |-> "nothing", dim |-> 0]

InitEmbed ==
    /\ e_variant = "none"
    /\ e_pc = "idle"
    /\ e_sent = 0
    /\ e_outcome = "none"
    /\ e_result = NoVector
    /\ e_calls = 0
    /\ e_embeddings = <<>>

InitIndex ==
    /\ x_exists = FALSE
    /\ x_docs = 0
    /\ x_op = "none"
    /\ x_pc = "startup"
    /\ x_creates = 0
    /\ x_attempts = 0
    /\ x_failure = "none"
    /\ x_result = "none"
    /\ x_log = <<>>

InitChunk ==
    /\ c_variant = "none"
    /\ c_pc = "idle"
    /\ c_text = <<>>
    /\ c_size = 1
    /\ c_overlap = 0
    /\ c_start = 0
    /\ c_chunks = <<>>
    /\ c_raised = FALSE

InitSearch ==
    /\ document_store = <<>>
    /\ embeddings_store = <<>>
    /\ s_pc = "idle"
    /\ s_top_k = 0
    /\ s_result = <<>>

Init == InitEnhanced /\ InitBatch /\ InitMain /\ InitProgress /\ InitAsk /\ InitGen /\ InitEmbed /\ InitIndex /\ InitChunk /\ InitSearch

\* ------------------------------------------------------ process_website_async
\* `if request.max_pdfs and len(pdf_links) > request.max_pdfs` (0 stands for None)
LimitLinks(n, max_pdfs) == IF max_pdfs # 0 /\ n > max_pdfs THEN max_pdfs ELSE n

\* `request.processing_mode == "sync" and len(pdf_links) <= 5`
TakesSyncPath(m, n) == m = "sync" /\ n <= SyncLimit

\* extract_pdf_links_enhanced raises: the handler's `except Exception` answers 500
process_website_async_extract_raises ==
    /\ response = "none"
    /\ response' = "500:extract"
    /\ UNCHANGED <<n_links, local_results, jobVars, coVars, wsVars, obsVars>>
    /\ UNCHANGED outsideEnhanced

\* `if not pdf_links: raise HTTPException(404)`, re-raised as 500 by the handler's
\* own `except Exception`; no job is created
process_website_async_no_links ==
    /\ response = "none"
    /\ response' = "500:no_links"
    /\ n_links' = 0
    /\ UNCHANGED <<local_results, jobVars, coVars, wsVars, obsVars>>
    /\ UNCHANGED outsideEnhanced

\* ProcessingJob(job_id, len(pdf_links)); active_jobs[job_id] = job
CreateJob(n) ==
    /\ n_links' = n
    /\ total_pdfs' = n
    /\ processed' = 0
    /\ failed' = 0
    /\ results' = <<>>
    /\ error_messages' = <<>>

\* background path: the job stays queued, the task is handed to BackgroundTasks
process_website_async_background(maxn) ==
    /\ response = "none"
    /\ \E n \in 1..maxn, max_pdfs \in 0..maxn, m \in {"sync", "async"} :
          /\ ~TakesSyncPath(m, LimitLinks(n, max_pdfs))
          /\ CreateJob(LimitLinks(n, max_pdfs))
    /\ status' = "queued"
    /\ bgpc' = "scheduled"
    /\ response' = "queued"
    /\ UNCHANGED <<local_results, syncpc, taskpc, semaphore, wsVars, obsVars>>
    /\ UNCHANGED outsideEnhanced

\* sync path, up to the first `await process_single_pdf_optimized`
process_website_async_sync(maxn) ==
    /\ response = "none"
    /\ \E n \in 1..maxn, max_pdfs \in 0..maxn, m \in {"sync", "async"} :
          /\ TakesSyncPath(m, LimitLinks(n, max_pdfs))
          /\ CreateJob(LimitLinks(n, max_pdfs))
    /\ status' = "processing"
    /\ syncpc' = 1
    /\ response' = "pending"
    /\ UNCHANGED <<local_results, bgpc, taskpc, semaphore, wsVars, obsVars>>
    /\ UNCHANGED outsideEnhanced

\* result["status"] == "success" -> job.processed += 1, else job.failed += 1
\* mutant of CountProcessed: the update of the success counter is lost
CountProcessed_Lost(p, outcome) == p
CountProcessed(p, outcome) == IF outcome = "success" THEN p + 1 ELSE p
\* mutant of CountFailed: the failure counter is bumped for every result
CountFailed_Always(f, outcome) == f + 1
CountFailed(f, outcome) == IF outcome = "success" THEN f ELSE f + 1

\* the status the sync path stores after its loop (line 354)
SyncFinalStatus(f) == "completed"

\* sync path: process_single_pdf_optimized(url) returns for item syncpc
process_website_async_sync_item ==
    /\ syncpc >= 1
    /\ \E outcome \in {"success", "failed"} :
          LET r == Append(local_results, [url |-> syncpc, status |-> outcome])
              f == CountFailed(failed, outcome)
          IN  /\ processed' = CountProcessed(processed, outcome)
              /\ failed' = f
              /\ IF syncpc < total_pdfs
                 THEN /\ syncpc' = syncpc + 1
                      /\ local_results' = r
                      /\ UNCHANGED <<status, results, response>>
                 ELSE /\ syncpc' = 0
                      /\ local_results' = r
                      /\ status' = SyncFinalStatus(f)
                      /\ results' = r
                      /\ response' = "completed"
    /\ UNCHANGED <<n_links, total_pdfs, error_messages, bgpc, taskpc, semaphore,
                   wsVars, obsVars>>
    /\ UNCHANGED outsideEnhanced

\* ---------------------------------------------------- process_pdfs_background
\* asyncio.gather(*tasks): one task per url, in input order
GatherTasks == [i \in Items |-> IF i <= total_pdfs THEN "created" ELSE "none"]

\* job.status = "processing", then the "started" progress update is sent
process_pdfs_background_start ==
    /\ bgpc = "scheduled"
    /\ status' = "processing"
    /\ LET r == PublishEnter(websocket_connections)
       IN  IF r.fin
           THEN /\ bgpc' = "gather"
                /\ taskpc' = GatherTasks
                /\ UNCHANGED pub
           ELSE /\ bgpc' = "started"
                /\ pub' = [pub EXCEPT ![0] = r.st]
                /\ UNCHANGED taskpc
    /\ UNCHANGED <<reqVars, total_pdfs, processed, failed, results, error_messages,
                   syncpc, semaphore, websocket_connections, hpc, sock, heartbeats, obsVars>>
    /\ UNCHANGED outsideEnhanced

\* a send_json of the "started" update returns or raises; when the update is
\* through, the tasks are created; a ValueError of the removal loop leaves
\* process_pdfs_background (it has no handler) with the job as it is
process_pdfs_background_started ==
    /\ bgpc = "started"
    /\ LET r == PublishResume(websocket_connections, pub[0])
       IN  /\ websocket_connections' = r.conns
           /\ pub' = [pub EXCEPT ![0] = r.st]
           /\ IF ~r.fin THEN UNCHANGED <<bgpc, taskpc>>
              ELSE IF r.raised THEN bgpc' = "raised_at_start" /\ UNCHANGED taskpc
              ELSE bgpc' = "gather" /\ taskpc' = GatherTasks
    /\ UNCHANGED <<reqVars, jobVars, syncpc, semaphore, hpc, sock, heartbeats, obsVars>>
    /\ UNCHANGED outsideEnhanced

\* mutant of SemaphoreFree: acquire never waits
SemaphoreFree_NoWait(v) == TRUE
\* asyncio.Semaphore: acquire succeeds while the value is positive
SemaphoreFree(v) == v > 0

\* `async with semaphore`: the tasks reach the semaphore in input order
process_with_semaphore_acquire(i) ==
    /\ taskpc[i] = "created"
    /\ \A j \in 1..(i-1) : taskpc[j] # "created"
    /\ SemaphoreFree(semaphore)
    /\ semaphore' = semaphore - 1
    /\ taskpc' = [taskpc EXCEPT ![i] = "running"]
    /\ UNCHANGED <<reqVars, jobVars, bgpc, syncpc, wsVars, obsVars>>
    /\ UNCHANGED outsideEnhanced

\* `((index + 1) / len(pdf_urls)) * 100`, in whole percent
ItemPercentage(index, total) == ((index + 1) * 100) \div total
\* the "progress" message of the task of index `index`
ProgressMessage(index, total, p, f) ==
    [current |-> index + 1, total |-> total, processed |-> p, failed |-> f,
     percentage |-> ItemPercentage(index, total)]

\* process_single_pdf_optimized returns its result (it catches every exception of
\* the item and returns status "failed"); the counters and lists are updated and
\* the "progress" update is sent
process_with_semaphore_result(i) ==
    /\ taskpc[i] = "running"
    /\ \E outcome \in {"success", "failed"} :
          /\ processed' = CountProcessed(processed, outcome)
          /\ failed' = CountFailed(failed, outcome)
          /\ progress_update' = ProgressMessage(i - 1, total_pdfs,
                                                CountProcessed(processed, outcome),
                                                CountFailed(failed, outcome))
          /\ error_messages' = IF outcome = "success" THEN error_messages
                               ELSE Append(error_messages, i)
          /\ results' = Append(results, [url |-> i, status |-> outcome])
    /\ LET r == PublishEnter(websocket_connections)
       IN  IF r.fin
           THEN /\ taskpc' = [taskpc EXCEPT ![i] = "done"]
                /\ semaphore' = semaphore + 1
                /\ UNCHANGED pub
           ELSE /\ taskpc' = [taskpc EXCEPT ![i] = "publishing"]
                /\ pub' = [pub EXCEPT ![i] = r.st]
                /\ UNCHANGED semaphore
    /\ UNCHANGED <<reqVars, status, total_pdfs, bgpc, syncpc,
                   websocket_connections, hpc, sock, heartbeats, cancel_resp, status_resp>>
    /\ UNCHANGED outsideEnhanced

\* a send_json of the task's "progress" update returns or raises; when the update
\* is through (or its removal loop raised: gather keeps the exception) the
\* semaphore is released
process_with_semaphore_published(i) ==
    /\ taskpc[i] = "publishing"
    /\ LET r == PublishResume(websocket_connections, pub[i])
       IN  /\ websocket_connections' = r.conns
           /\ pub' = [pub EXCEPT ![i] = r.st]
           /\ IF r.fin
              THEN /\ taskpc' = [taskpc EXCEPT ![i] = "done"]
                   /\ semaphore' = semaphore + 1
              ELSE UNCHANGED <<taskpc, semaphore>>
    /\ UNCHANGED <<reqVars, jobVars, bgpc, syncpc, hpc, sock, heartbeats, obsVars>>
    /\ UNCHANGED outsideEnhanced

\* job.status = "completed" if job.failed == 0 else "completed_with_errors"
StatusAfterGather(f) == IF f = 0 THEN "completed" ELSE "completed_with_errors"

\* `await asyncio.gather(*tasks, return_exceptions=True)` returns once every
\* task is done
\* mutant of GatherReturns: the gather returns with the first finished task
GatherReturns_Any == \E i \in 1..total_pdfs : taskpc[i] = "done"
GatherReturns == \A i \in 1..total_pdfs : taskpc[i] = "done"

\* after the gather the status is stored and the "completed" update is sent
process_pdfs_background_finish ==
    /\ bgpc = "gather"
    /\ GatherReturns
    /\ status' = StatusAfterGather(failed)
    /\ LET r == PublishEnter(websocket_connections)
       IN  IF r.fin
           THEN bgpc' = "done" /\ UNCHANGED pub
           ELSE bgpc' = "completing" /\ pub' = [pub EXCEPT ![0] = r.st]
    /\ UNCHANGED <<reqVars, total_pdfs, processed, failed, results, error_messages,
                   syncpc, taskpc, semaphore, websocket_connections, hpc, sock, heartbeats, obsVars>>
    /\ UNCHANGED outsideEnhanced

process_pdfs_background_completing ==
    /\ bgpc = "completing"
    /\ LET r == PublishResume(websocket_connections, pub[0])
       IN  /\ websocket_connections' = r.conns
           /\ pub' = [pub EXCEPT ![0] = r.st]
           /\ bgpc' = IF ~r.fin THEN bgpc ELSE IF r.raised THEN "raised_at_end" ELSE "done"
    /\ UNCHANGED <<reqVars, jobVars, syncpc, taskpc, semaphore, hpc, sock, heartbeats, obsVars>>
    /\ UNCHANGED outsideEnhanced

\* ------------------------------------------------------------------ cancel_job
\* `if job.status in ["completed", "failed"]: raise HTTPException(400)`
CancelRejected(s) == s \in {"completed", "failed"}

cancel_job ==
    /\ IF status = "none"
       THEN /\ cancel_resp' = [before |-> status, code |-> 404]
            /\ UNCHANGED status
       ELSE IF CancelRejected(status)
       THEN /\ cancel_resp' = [before |-> status, code |-> 400]
            /\ UNCHANGED status
       ELSE /\ cancel_resp' = [before |-> status, code |-> 200]
            /\ status' = "cancelled"
    /\ UNCHANGED <<reqVars, total_pdfs, processed, failed, results, error_messages,
                   coVars, wsVars, status_resp, progress_update>>
    /\ UNCHANGED outsideEnhanced

\* -------------------------------------------------------------- get_job_status
JobUnknown_Never(s) == FALSE
\* `job_id not in active_jobs`
JobUnknown(s) == s = "none"

\* `(job.processed + job.failed) / job.total_pdfs * 100 if job.total_pdfs > 0
\* else 0`, rounded down to a whole number
Percentage(p, f, t) == IF t > 0 THEN ((p + f) * 100) \div t ELSE 0

\* HTTPException(404), or the JobStatusResponse built from the job
JobStatusResponse(s, p, f, t) ==
    IF JobUnknown(s)
    THEN [code |-> 404, status |-> "none", processed |-> 0, failed |-> 0,
          total |-> 0, percentage |-> 0]
    ELSE [code |-> 200, status |-> s, processed |-> p, failed |-> f,
          total |-> t, percentage |-> Percentage(p, f, t)]

get_job_status ==
    /\ status_resp' = JobStatusResponse(status, processed, failed, total_pdfs)
    /\ UNCHANGED <<reqVars, jobVars, coVars, wsVars, cancel_resp, progress_update>>
    /\ UNCHANGED outsideEnhanced

\* ------------------------------------------------- ConnectionManager, listeners
\* manager.connect: the socket is accepted and, when the job exists, appended
\* to job.websocket_connections
connect(l) ==
    /\ hpc[l] = "idle"
    /\ hpc' = [hpc EXCEPT ![l] = "loop"]
    /\ websocket_connections' = IF status # "none"
                                THEN Append(websocket_connections, l)
                                ELSE websocket_connections
    /\ UNCHANGED <<reqVars, jobVars, coVars, pub, sock, heartbeats, obsVars>>
    /\ UNCHANGED outsideEnhanced

\* the client goes away: every later send to this socket raises
client_closes(l) ==
    /\ hpc[l] = "loop"
    /\ sock[l] = "open"
    /\ sock' = [sock EXCEPT ![l] = "closed"]
    /\ UNCHANGED <<reqVars, jobVars, coVars, websocket_connections, pub, hpc, heartbeats, obsVars>>
    /\ UNCHANGED outsideEnhanced

\* `if job.status in ["completed", "completed_with_errors", "failed"]: break`
StreamEnds(s) == s \in {"completed", "completed_with_errors", "failed"}

\* manager.disconnect
disconnect(conns, l) == IF InSeq(conns, l) THEN Remove(conns, l) ELSE conns

\* one round of the `while True` loop of websocket_progress: the heartbeat is
\* sent when the job exists; the handler returns after a heartbeat that carried
\* a final status (the server then closes the socket); a send on a closed
\* socket raises, WebSocketDisconnect -> manager.disconnect, anything else
\* leaves the handler with the connection still registered
websocket_progress(l) ==
    /\ hpc[l] = "loop"
    /\ status # "none"
    /\ \/ /\ sock[l] = "open"
          /\ StreamEnds(status)
          /\ heartbeats' = 1 - heartbeats
          /\ hpc' = [hpc EXCEPT ![l] = "ended"]
          /\ sock' = [sock EXCEPT ![l] = "closed"]
          /\ UNCHANGED websocket_connections
       \/ /\ sock[l] = "open"
          /\ ~StreamEnds(status)
          /\ heartbeats' = 1 - heartbeats
          /\ UNCHANGED <<hpc, sock, websocket_connections>>
       \/ /\ sock[l] = "closed"
          /\ hpc' = [hpc EXCEPT ![l] = "ended"]
          /\ websocket_connections' = disconnect(websocket_connections, l)
          /\ UNCHANGED <<sock, heartbeats>>
       \/ /\ sock[l] = "closed"
          /\ hpc' = [hpc EXCEPT ![l] = "ended"]
          /\ UNCHANGED <<sock, heartbeats, websocket_connections>>
    /\ UNCHANGED <<reqVars, jobVars, coVars, pub, obsVars>>
    /\ UNCHANGED outsideEnhanced

\* ------------------------------------------------------------------------ Spec
\* The job with no progress listener: nobody connects to /ws/progress, so every
\* send_progress_update finds job.websocket_connections empty and returns at once.
Next ==
    \/ process_website_async_extract_raises
    \/ process_website_async_no_links
    \/ process_website_async_background(MaxItems)
    \/ process_website_async_sync(MaxItems)
    \/ process_website_async_sync_item
    \/ process_pdfs_background_start
    \/ \E i \in Items : process_with_semaphore_acquire(i)
    \/ \E i \in Items : process_with_semaphore_result(i)
    \/ process_pdfs_background_finish
    \/ cancel_job
    \/ get_job_status

Spec == Init /\ [][Next]_vars

\* The job together with its progress listeners.
NextWs ==
    \/ process_website_async_extract_raises
    \/ process_website_async_no_links
    \/ process_website_async_background(MaxWsItems)
    \/ process_website_async_sync(MaxWsItems)
    \/ process_website_async_sync_item
    \/ process_pdfs_background_start
    \/ process_pdfs_background_started
    \/ \E i \in Items : process_with_semaphore_acquire(i)
    \/ \E i \in Items : process_with_semaphore_result(i)
    \/ \E i \in Items : process_with_semaphore_published(i)
    \/ process_pdfs_background_finish
    \/ process_pdfs_background_completing
    \/ cancel_job
    \/ get_job_status
    \/ \E l \in Listeners : connect(l)
    \/ \E l \in Listeners : client_closes(l)
    \/ \E l \in Listeners : websocket_progress(l)

SpecWs == Init /\ [][NextWs]_vars

\* The event loop runs every coroutine that is ready: the background task, the
\* item tasks and the listeners' handlers (whose sleep(2) always expires) keep
\* taking their steps. Requests and clients going away are the environment's.
SpecWsFair ==
    /\ Init
    /\ [][NextWs]_vars
    /\ WF_vars(process_website_async_sync_item)
    /\ WF_vars(process_pdfs_background_start)
    /\ WF_vars(process_pdfs_background_started)
    /\ \A i \in Items : WF_vars(process_with_semaphore_acquire(i))
    /\ \A i \in Items : WF_vars(process_with_semaphore_result(i))
    /\ \A i \in Items : WF_vars(process_with_semaphore_published(i))
    /\ WF_vars(process_pdfs_background_finish)
    /\ WF_vars(process_pdfs_background_completing)
    /\ \A l \in Listeners : WF_vars(websocket_progress(l))

\* ============================ simple_bedrock_main.process_and_upload_pdfs
\* results of the gather with a given outcome
CountResults(kind) == Cardinality({i \in BatchItems : b_result[i] = kind})

\* the handler's `except Exception`: the status object is replaced by a failed
\* one with zero counts and the request is answered 500
UploadFailed ==
    /\ cps' = [status |-> "failed", processed |-> 0, failed |-> 0, total |-> 0]
    /\ b_response' = [code |-> 500, processed |-> 0, failed |-> 0, total |-> 0]
    /\ b_pc' = "http500"

\* extract_pdf_links_from_website raises HTTPException(400)
process_and_upload_pdfs_extract_raises ==
    /\ b_service = "none"
    /\ b_service' = "upload"
    /\ UploadFailed
    /\ UNCHANGED <<b_limit, b_sem, b_task, b_result>>
    /\ UNCHANGED outsideBatch

\* `if not pdf_links: raise HTTPException(404)` inside the handler's try
process_and_upload_pdfs_no_links ==
    /\ b_service = "none"
    /\ b_service' = "upload"
    /\ UploadFailed
    /\ UNCHANGED <<b_limit, b_sem, b_task, b_result>>
    /\ UNCHANGED outsideBatch

\* the status object is initialised, the semaphore created and one task per link
\* handed to asyncio.gather
process_and_upload_pdfs_start ==
    /\ b_service = "none"
    /\ b_service' = "upload"
    /\ \E n \in 1..MaxBatchItems, max_pdfs \in 0..MaxBatchItems :
          LET total == LimitLinks(n, max_pdfs)
          IN  /\ cps' = [status |-> "processing", processed |-> 0, failed |-> 0,
                         total |-> total]
              /\ b_task' = [i \in BatchItems |-> IF i <= total THEN "created" ELSE "none"]
    /\ b_limit' = UploadSemaphoreLimit
    /\ b_sem' = UploadSemaphoreLimit
    /\ b_pc' = "gather"
    /\ UNCHANGED <<b_result, b_response>>
    /\ UNCHANGED outsideBatch

\* `async with semaphore`, tasks reaching it in input order
upload_with_semaphore_acquire(i) ==
    /\ b_service = "upload"
    /\ b_task[i] = "created"
    /\ \A j \in 1..(i-1) : b_task[j] # "created"
    /\ SemaphoreFree(b_sem)
    /\ b_sem' = b_sem - 1
    /\ b_task' = [b_task EXCEPT ![i] = "running"]
    /\ UNCHANGED <<b_service, b_pc, b_limit, b_result, cps, b_response>>
    /\ UNCHANGED outsideBatch

\* download_and_upload_pdf_to_s3 returns (it catches the item's exceptions and
\* returns status "failed"); the status object is updated, the semaphore released
upload_with_semaphore_result(i) ==
    /\ b_service = "upload"
    /\ b_task[i] = "running"
    /\ \E outcome \in {"success", "failed"} :
          /\ cps' = [cps EXCEPT !.processed = CountProcessed(cps.processed, outcome),
                                !.failed = CountFailed(cps.failed, outcome)]
          /\ b_result' = [b_result EXCEPT ![i] = outcome]
    /\ b_task' = [b_task EXCEPT ![i] = "done"]
    /\ b_sem' = b_sem + 1
    /\ UNCHANGED <<b_service, b_pc, b_limit, b_response>>
    /\ UNCHANGED outsideBatch

\* the gather returned: final status and the response with the filtered counts
process_and_upload_pdfs_finish ==
    /\ b_service = "upload"
    /\ b_pc = "gather"
    /\ \A i \in 1..cps.total : b_task[i] = "done"
    /\ cps' = [cps EXCEPT !.status = "completed"]
    /\ b_response' = [code |-> 200, processed |-> CountResults("success"),
                      failed |-> CountResults("failed"), total |-> cps.total]
    /\ b_pc' = "returned"
    /\ UNCHANGED <<b_service, b_limit, b_sem, b_task, b_result>>
    /\ UNCHANGED outsideBatch

\* ================================== AsyncPDFProcessor.direct_processing
\* AsyncPDFProcessor(max_concurrent).direct_processing(pdf_urls)
direct_processing_start ==
    /\ b_service = "none"
    /\ b_service' = "direct"
    /\ \E n \in 0..MaxBatchItems :
          b_task' = [i \in BatchItems |-> IF i <= n THEN "created" ELSE "none"]
    /\ \E max_concurrent \in 1..MaxConcurrent :
          b_limit' = max_concurrent /\ b_sem' = max_concurrent
    /\ b_pc' = "gather"
    /\ UNCHANGED <<b_result, cps, b_response>>
    /\ UNCHANGED outsideBatch

direct_process_single_pdf_acquire(i) ==
    /\ b_service = "direct"
    /\ b_task[i] = "created"
    /\ \A j \in 1..(i-1) : b_task[j] # "created"
    /\ SemaphoreFree(b_sem)
    /\ b_sem' = b_sem - 1
    /\ b_task' = [b_task EXCEPT ![i] = "running"]
    /\ UNCHANGED <<b_service, b_pc, b_limit, b_result, cps, b_response>>
    /\ UNCHANGED outsideBatch

\* process_pdf_async returns or raises; `async with` releases the semaphore
\* either way and gather keeps the value or the exception
direct_process_single_pdf_result(i) ==
    /\ b_service = "direct"
    /\ b_task[i] = "running"
    /\ \E outcome \in {"success", "exception"} :
          b_result' = [b_result EXCEPT ![i] = outcome]
    /\ b_task' = [b_task EXCEPT ![i] = "done"]
    /\ b_sem' = b_sem + 1
    /\ UNCHANGED <<b_service, b_pc, b_limit, cps, b_response>>
    /\ UNCHANGED outsideBatch

direct_processing_finish ==
    /\ b_service = "direct"
    /\ b_pc = "gather"
    /\ \A i \in BatchItems : b_task[i] \in {"none", "done"}
    /\ b_response' = [code |-> 200, processed |-> CountResults("success"),
                      failed |-> CountResults("exception"),
                      total |-> Cardinality({i \in BatchItems : b_task[i] = "done"})]
    /\ b_pc' = "returned"
    /\ UNCHANGED <<b_service, b_limit, b_sem, b_task, b_result, cps>>
    /\ UNCHANGED outsideBatch

\* One batch of simple_bedrock_main's handler or of AsyncPDFProcessor.
NextBatch ==
    \/ process_and_upload_pdfs_extract_raises
    \/ process_and_upload_pdfs_no_links
    \/ process_and_upload_pdfs_start
    \/ \E i \in BatchItems : upload_with_semaphore_acquire(i)
    \/ \E i \in BatchItems : upload_with_semaphore_result(i)
    \/ process_and_upload_pdfs_finish
    \/ direct_processing_start
    \/ \E i \in BatchItems : direct_process_single_pdf_acquire(i)
    \/ \E i \in BatchItems : direct_process_single_pdf_result(i)
    \/ direct_processing_finish

SpecBatch == Init /\ [][NextBatch]_vars

\* ================================================================== main.py
\* `if processing_status["status"] == "processing": raise HTTPException(409)`
RequestRejected(st) == st = "processing"

\* POST /process-and-upload-pdfs: rejected with 409, or the status is reset to
\* "starting" and process_pdfs_background is handed to BackgroundTasks
main_process_and_upload_pdfs(r) ==
    /\ m_pc[r] = "idle"
    /\ \A q \in 1..(r-1) : m_pc[q] # "idle"
    /\ IF RequestRejected(processing_status.status)
       THEN /\ m_resp' = 409
            /\ UNCHANGED <<processing_status, m_pc>>
       ELSE /\ m_resp' = 200
            /\ processing_status' = [IdleStatus EXCEPT !.status = "starting"]
            /\ m_pc' = [m_pc EXCEPT ![r] = "scheduled"]
    /\ UNCHANGED <<m_links, m_idx, m_uploaded, m_outcome>>
    /\ UNCHANGED outsideMain

\* process_pdfs_background up to `await find_pdf_links`
main_process_pdfs_background_start(r) ==
    /\ m_pc[r] = "scheduled"
    /\ processing_status' = [processing_status EXCEPT !.status = "finding_pdfs",
                                                      !.progress = 10,
                                                      !.errors = <<>>]
    /\ m_pc' = [m_pc EXCEPT ![r] = "finding"]
    /\ UNCHANGED <<m_links, m_idx, m_uploaded, m_outcome, m_resp>>
    /\ UNCHANGED outsideMain

\* find_pdf_links returned (it returns [] on its own errors): no links ends the
\* run as completed, otherwise the loop starts
main_process_pdfs_background_found(r) ==
    /\ m_pc[r] = "finding"
    /\ \E n \in 0..MaxMainItems :
          IF n = 0
          THEN /\ processing_status' = [processing_status EXCEPT
                                            !.status = "completed",
                                            !.progress = 100,
                                            !.total_count = 0]
               /\ m_pc' = [m_pc EXCEPT ![r] = "done"]
               /\ UNCHANGED <<m_links, m_idx, m_uploaded>>
          ELSE /\ processing_status' = [processing_status EXCEPT
                                            !.status = "processing",
                                            !.progress = 20,
                                            !.total_count = n]
               /\ m_pc' = [m_pc EXCEPT ![r] = "loop"]
               /\ m_links' = [m_links EXCEPT ![r] = n]
               /\ m_idx' = [m_idx EXCEPT ![r] = 1]
               /\ m_uploaded' = [m_uploaded EXCEPT ![r] = 0]
    /\ UNCHANGED <<m_outcome, m_resp>>
    /\ UNCHANGED outsideMain

\* `progress = 20 + (70 * (i + 1) // len(pdf_links))`, i + 1 being the item's
\* 1-based position
ItemProgress(pos, n) == 20 + ((70 * pos) \div n)

\* what the loop body records for an item: a download (or key) exception is
\* appended to processing_status["errors"] by the item's `except`; an upload
\* that returned True bumps uploaded_count and processed_count; an upload that
\* returned False only moves the progress
RecordItem(ps, r, pos, n, uploaded, outcome) ==
    IF outcome = "download_error"
    THEN [ps EXCEPT !.errors = Append(ps.errors, <<r, pos>>)]
    ELSE IF outcome = "uploaded"
    THEN [ps EXCEPT !.processed_count = uploaded + 1,
                    !.progress = ItemProgress(pos, n)]
    ELSE [ps EXCEPT !.progress = ItemProgress(pos, n)]

\* one round of `for i, pdf_url in enumerate(pdf_links)`
main_process_pdfs_background_item(r) ==
    /\ m_pc[r] = "loop"
    /\ m_idx[r] <= m_links[r]
    /\ \E outcome \in {"uploaded", "download_error", "upload_failed"} :
          /\ processing_status' = RecordItem(processing_status, r, m_idx[r],
                                             m_links[r], m_uploaded[r], outcome)
          /\ m_uploaded' = [m_uploaded EXCEPT
                                ![r] = IF outcome = "uploaded" THEN @ + 1 ELSE @]
          /\ m_outcome' = [m_outcome EXCEPT ![r][m_idx[r]] = outcome]
    /\ m_idx' = [m_idx EXCEPT ![r] = @ + 1]
    /\ UNCHANGED <<m_pc, m_links, m_resp>>
    /\ UNCHANGED outsideMain

\* after the loop: status "syncing", start_knowledge_base_sync() (a plain call,
\* no await), then completed or completed_with_warnings
main_process_pdfs_background_sync(r) ==
    /\ m_pc[r] = "loop"
    /\ m_idx[r] > m_links[r]
    /\ \E final \in {"completed", "completed_with_warnings"} :
          processing_status' = [processing_status EXCEPT
                                    !.status = final,
                                    !.progress = 100,
                                    !.processed_count = m_uploaded[r]]
    /\ m_pc' = [m_pc EXCEPT ![r] = "done"]
    /\ UNCHANGED <<m_links, m_idx, m_uploaded, m_outcome, m_resp>>
    /\ UNCHANGED outsideMain

\* POST /clear-processing-status
main_clear_processing_status ==
    /\ processing_status' = IdleStatus
    /\ UNCHANGED <<m_pc, m_links, m_idx, m_uploaded, m_outcome, m_resp>>
    /\ UNCHANGED outsideMain

NextMain ==
    \/ \E r \in Runs : main_process_and_upload_pdfs(r)
    \/ \E r \in Runs : main_process_pdfs_background_start(r)
    \/ \E r \in Runs : main_process_pdfs_background_found(r)
    \/ \E r \in Runs : main_process_pdfs_background_item(r)
    \/ \E r \in Runs : main_process_pdfs_background_sync(r)
    \/ main_clear_processing_status

SpecMain == Init /\ [][NextMain]_vars

\* =================================== progressive_processor.ProgressiveProcessor
Range(s) == {s[j] : j \in 1..Len(s)}

\* ProgressiveProcessor.connect: accept, then append to the list
progress_connect(c) ==
    /\ c \notin Range(active_connections)
    /\ c \notin pp_subscribed
    /\ c \notin pp_open
    /\ \A d \in 1..(c-1) : d \in pp_open \/ d \in Range(active_connections) \/ d \in pp_subscribed
    /\ active_connections' = Append(active_connections, c)
    /\ pp_open' = pp_open \cup {c}
    /\ UNCHANGED <<pp_pc, pp_idx, pp_subscribed, pp_delivered>>
    /\ UNCHANGED outsideProgress

\* the client of a socket goes away: from now on send_text on it raises
progress_client_closes(c) ==
    /\ c \in pp_open
    /\ pp_open' = pp_open \ {c}
    /\ UNCHANGED <<active_connections, pp_pc, pp_idx, pp_subscribed, pp_delivered>>
    /\ UNCHANGED outsideProgress

\* send_progress is called: the list iterator is created
send_progress_start ==
    /\ pp_pc \in {"idle", "done"}
    /\ pp_pc' = "sending"
    /\ pp_idx' = 1
    /\ pp_subscribed' = Range(active_connections)
    /\ pp_delivered' = {}
    /\ UNCHANGED <<active_connections, pp_open>>
    /\ UNCHANGED outsideProgress

\* ProgressiveProcessor.disconnect: self.active_connections.remove(websocket)
progress_disconnect(conns, c) == Remove(conns, c)

\* one round of the loop: the iterator yields the element at its position in
\* the list as it is now; send_text either delivers or raises, and the bare
\* `except` removes the socket from the list being iterated
send_progress_step ==
    /\ pp_pc = "sending"
    /\ pp_idx <= Len(active_connections)
    /\ LET c == active_connections[pp_idx]
       IN  IF c \in pp_open
           THEN /\ pp_delivered' = pp_delivered \cup {c}
                /\ UNCHANGED active_connections
           ELSE /\ active_connections' = progress_disconnect(active_connections, c)
                /\ UNCHANGED pp_delivered
    /\ pp_idx' = pp_idx + 1
    /\ UNCHANGED <<pp_open, pp_pc, pp_subscribed>>
    /\ UNCHANGED outsideProgress

\* the iterator is past the end of the list: send_progress returns
send_progress_return ==
    /\ pp_pc = "sending"
    /\ pp_idx > Len(active_connections)
    /\ pp_pc' = "done"
    /\ UNCHANGED <<active_connections, pp_open, pp_idx, pp_subscribed, pp_delivered>>
    /\ UNCHANGED outsideProgress

NextProgress ==
    \/ \E c \in Clients : progress_connect(c)
    \/ \E c \in Clients : progress_client_closes(c)
    \/ send_progress_start
    \/ send_progress_step
    \/ send_progress_return

SpecProgress == Init /\ [][NextProgress]_vars

\* ======================================================= the question endpoints
\* what a retrieval of at most n results can return: scores, best first
Retrievals(n) ==
    {s \in UNION {[1..k -> ScoreLevels] : k \in 0..n} :
        \A j \in 1..(Len(s) - 1) : s[j] >= s[j+1]}

\* `top_score < 0.5`
BelowThreshold(score) == score < RelevanceThreshold

\* main.py: sources are the results with `score >= 0.5`
RelevantSources(res) == Cardinality({j \in 1..Len(res) : ~BelowThreshold(res[j])})

\* main.query_knowledge_base up to the generation call: the retrieve call
\* raises (the function's `except` answers with the error text), or it returns
\* no result, or a best result under the threshold, or the function goes on
ask_main_retrieve ==
    /\ a_service = "none"
    /\ a_service' = "main"
    /\ \E max_results \in 1..MaxResults :
          /\ a_max_results' = max_results
          /\ \/ /\ a_retrieval' = "failed"
                /\ a_results' = <<>>
                /\ a_response' = [kind |-> "error", sources |-> 0, confidence |-> 0]
                /\ a_pc' = "done"
             \/ \E res \in Retrievals(max_results) :
                   /\ a_retrieval' = "ok"
                   /\ a_results' = res
                   /\ IF res = <<>>
                      THEN /\ a_response' = [kind |-> "not_found", sources |-> 0,
                                             confidence |-> 0]
                           /\ a_pc' = "done"
                      ELSE IF BelowThreshold(res[1])
                      THEN /\ a_response' = [kind |-> "not_found_about", sources |-> 0,
                                             confidence |-> 0]
                           /\ a_pc' = "done"
                      ELSE /\ a_pc' = "retrieved"
                           /\ UNCHANGED a_response
    /\ UNCHANGED a_invoked
    /\ UNCHANGED outsideAsk

\* main.query_knowledge_base from the invoke_model call on
ask_main_generate ==
    /\ a_service = "main"
    /\ a_pc = "retrieved"
    /\ a_invoked' = TRUE
    /\ \/ a_response' = [kind |-> "answer", sources |-> RelevantSources(a_results),
                         confidence |-> a_results[1]]
       \/ a_response' = [kind |-> "error", sources |-> 0, confidence |-> 0]
    /\ a_pc' = "done"
    /\ UNCHANGED <<a_service, a_max_results, a_results, a_retrieval>>
    /\ UNCHANGED outsideAsk

\* simple_bedrock_main.ask_question without a knowledge base id
ask_simple_not_configured ==
    /\ a_service = "none"
    /\ a_service' = "simple"
    /\ a_response' = [kind |-> "not_configured", sources |-> 0, confidence |-> 0]
    /\ a_pc' = "done"
    /\ UNCHANGED <<a_max_results, a_results, a_retrieval, a_invoked>>
    /\ UNCHANGED outsideAsk

\* simple_bedrock_main.ask_question up to the generation call: a retrieve call
\* that raises ends in HTTP 500, any result list (empty too) goes on
ask_simple_retrieve ==
    /\ a_service = "none"
    /\ a_service' = "simple"
    /\ \E max_results \in 1..MaxResults :
          /\ a_max_results' = max_results
          /\ \/ /\ a_retrieval' = "failed"
                /\ a_results' = <<>>
                /\ a_response' = [kind |-> "http500", sources |-> 0, confidence |-> -1]
                /\ a_pc' = "done"
             \/ \E res \in Retrievals(max_results) :
                   /\ a_retrieval' = "ok"
                   /\ a_results' = res
                   /\ a_pc' = "retrieved"
                   /\ UNCHANGED a_response
    /\ UNCHANGED a_invoked
    /\ UNCHANGED outsideAsk

\* `len(sources) / max(request.max_results, 1)`, in tenths
SourceRatio(n, max_results) ==
    (10 * n) \div (IF max_results > 1 THEN max_results ELSE 1)

\* simple_bedrock_main.ask_question from the invoke_model call on
ask_simple_generate ==
    /\ a_service = "simple"
    /\ a_pc = "retrieved"
    /\ a_invoked' = TRUE
    /\ \/ a_response' = [kind |-> "answer", sources |-> Len(a_results),
                         confidence |-> SourceRatio(Len(a_results), a_max_results)]
       \/ a_response' = [kind |-> "http500", sources |-> 0, confidence |-> -1]
    /\ a_pc' = "done"
    /\ UNCHANGED <<a_service, a_max_results, a_results, a_retrieval>>
    /\ UNCHANGED outsideAsk

\* main_with_opensearch.ask_question up to query_bedrock: create_embedding
\* always returns a vector; search_similar_chunks returns the hits, or [] when
\* the search raised; no chunk ends the request with the no-documents answer
ask_opensearch_retrieve ==
    /\ a_service = "none"
    /\ a_service' = "opensearch"
    /\ a_max_results' = MaxResults
    /\ \E res \in Retrievals(MaxResults), raised \in BOOLEAN :
          /\ raised => res = <<>>
          /\ a_retrieval' = IF raised THEN "failed" ELSE "ok"
          /\ a_results' = res
          /\ IF res = <<>>
             THEN /\ a_response' = [kind |-> "no_documents", sources |-> 0,
                                    confidence |-> -1]
                  /\ a_pc' = "done"
             ELSE /\ a_pc' = "retrieved"
                  /\ UNCHANGED a_response
    /\ UNCHANGED a_invoked
    /\ UNCHANGED outsideAsk

\* main_with_opensearch.ask_question from query_bedrock on; query_bedrock
\* returns a model's answer or its apology text, it never raises
ask_opensearch_generate ==
    /\ a_service = "opensearch"
    /\ a_pc = "retrieved"
    /\ a_invoked' = TRUE
    /\ \E kind \in {"answer", "apology"} :
          a_response' = [kind |-> kind, sources |-> Len(a_results), confidence |-> -1]
    /\ a_pc' = "done"
    /\ UNCHANGED <<a_service, a_max_results, a_results, a_retrieval>>
    /\ UNCHANGED outsideAsk

NextAsk ==
    \/ ask_main_retrieve
    \/ ask_main_generate
    \/ ask_simple_not_configured
    \/ ask_simple_retrieve
    \/ ask_simple_generate
    \/ ask_opensearch_retrieve
    \/ ask_opensearch_generate

SpecAsk == Init /\ [][NextAsk]_vars

\* ================================================================ query_bedrock
\* the text a model returned
ModelText(tier) == [by |-> tier, form |-> "model_text", excerpt |-> 0, ellipsis |-> FALSE]
\* main_with_opensearch.query_bedrock's two fixed strings: "... encountered an
\* issue ..." (no known key in the response body) and "... encountered an
\* error ..." (the outer `except`)
Apology(form) == [by |-> "apology", form |-> form, excerpt |-> 0, ellipsis |-> FALSE]

\* query_bedrock(question, context) is called
query_bedrock_call ==
    /\ g_variant = "none"
    /\ \E v \in {"opensearch", "container"}, q \in QuestionKinds, c \in ContextLengths :
          /\ g_variant' = v
          /\ g_question' = q
          /\ g_context' = c
          /\ g_pc' = IF v = "opensearch" THEN "claude" ELSE "titan"
    /\ UNCHANGED <<g_calls, g_failed, g_answer>>
    /\ UNCHANGED outsideGen

\* main_with_opensearch: the tier tried when the given one raised ("except":
\* the third tier's exception goes to the outer `except`)
NextTier(tier) ==
    IF tier = "claude" THEN "nova" ELSE IF tier = "nova" THEN "titan" ELSE "except"

\* main_with_opensearch.query_bedrock: one invoke_model and what follows it.
\* The call raises (next tier, or the outer `except` after the third); or it
\* returns a body with one of the three known keys (the text is returned), a
\* body with none of them (the "issue" string), or a body whose reading raises
\* (the outer `except`)
opensearch_invoke_model ==
    /\ g_variant = "opensearch"
    /\ g_pc \in {"claude", "nova", "titan"}
    /\ g_calls' = Append(g_calls, g_pc)
    /\ \E outcome \in {"raises", "text", "unknown_body", "unreadable_body"} :
          IF outcome = "raises"
          THEN /\ g_failed' = g_failed \cup {g_pc}
               /\ IF NextTier(g_pc) = "except"
                  THEN /\ g_answer' = Apology("error")
                       /\ g_pc' = "done"
                  ELSE /\ g_pc' = NextTier(g_pc)
                       /\ UNCHANGED g_answer
          ELSE /\ g_pc' = "done"
               /\ IF outcome = "text"
                  THEN /\ g_answer' = ModelText(g_pc)
                       /\ UNCHANGED g_failed
                  ELSE /\ g_answer' = Apology(IF outcome = "unknown_body"
                                              THEN "issue" ELSE "error")
                       /\ UNCHANGED g_failed
    /\ UNCHANGED <<g_variant, g_question, g_context>>
    /\ UNCHANGED outsideGen

\* main_container.query_bedrock, Titan: an exception enters the `except` that
\* tries Claude Instant; an empty outputText leaves the `try` without an
\* exception, so the function goes on after the try statement, to the fallback
container_invoke_titan ==
    /\ g_variant = "container"
    /\ g_pc = "titan"
    /\ g_calls' = Append(g_calls, "titan")
    /\ \E outcome \in {"raises", "empty", "text"} :
          IF outcome = "text"
          THEN /\ g_answer' = ModelText("titan")
               /\ g_pc' = "done"
               /\ UNCHANGED g_failed
          ELSE /\ g_failed' = g_failed \cup {"titan"}
               /\ g_pc' = IF outcome = "raises" THEN "claude_instant" ELSE "heuristic"
               /\ UNCHANGED g_answer
    /\ UNCHANGED <<g_variant, g_question, g_context>>
    /\ UNCHANGED outsideGen

\* main_container.query_bedrock, Claude Instant (inside Titan's `except`)
container_invoke_claude ==
    /\ g_variant = "container"
    /\ g_pc = "claude_instant"
    /\ g_calls' = Append(g_calls, "claude_instant")
    /\ \E outcome \in {"raises", "empty", "text"} :
          IF outcome = "text"
          THEN /\ g_answer' = ModelText("claude_instant")
               /\ g_pc' = "done"
               /\ UNCHANGED g_failed
          ELSE /\ g_failed' = g_failed \cup {"claude_instant"}
               /\ g_pc' = "heuristic"
               /\ UNCHANGED g_answer
    /\ UNCHANGED <<g_variant, g_question, g_context>>
    /\ UNCHANGED outsideGen

\* `context[:limit]` followed by '...' when the context is longer
Excerpt(form, len, limit) ==
    [by |-> "heuristic", form |-> form,
     excerpt |-> IF len > limit THEN limit ELSE len, ellipsis |-> len > limit]

\* main_container's "simple text analysis fallback"
SimpleFallback(question, len) ==
    IF question = "what_document" THEN Excerpt("contains", len, LongExcerpt)
    ELSE IF question = "how_many"
    THEN [by |-> "heuristic", form |-> "word_count", excerpt |-> 0, ellipsis |-> FALSE]
    ELSE Excerpt("based_on", len, ShortExcerpt)

container_fallback ==
    /\ g_variant = "container"
    /\ g_pc = "heuristic"
    /\ g_calls' = Append(g_calls, "heuristic")
    /\ g_answer' = SimpleFallback(g_question, g_context)
    /\ g_pc' = "done"
    /\ UNCHANGED <<g_variant, g_question, g_context, g_failed>>
    /\ UNCHANGED outsideGen

NextGen ==
    \/ query_bedrock_call
    \/ opensearch_invoke_model
    \/ container_invoke_titan
    \/ container_invoke_claude
    \/ container_fallback

SpecGen == Init /\ [][NextGen]_vars

\* ============================================================= create_embedding
\* `if len(text) > max_length: text = text[:max_length]`
Truncate(len) == IF len > MaxEmbeddingChars THEN MaxEmbeddingChars ELSE len

\* create_embedding(text) is called, up to the invoke_model call
create_embedding_call ==
    /\ e_pc \in {"idle", "returned"}
    /\ e_calls < MaxEmbedCalls
    /\ \E v \in {"opensearch", "container"}, len \in TextLengths :
          /\ e_variant \in {"none", v}
          /\ e_variant' = v
          /\ e_sent' = Truncate(len)
    /\ e_pc' = "invoking"
    /\ e_calls' = e_calls + 1
    /\ e_outcome' = "none"
    /\ e_result' = NoVector
    /\ UNCHANGED e_embeddings
    /\ UNCHANGED outsideEmbed

\* what the remote call can do: raise; return a body that json.loads rejects;
\* a body without 'embedding'; with 'embedding' null or []; with a vector
RemoteOutcomes ==
    {"raises", "unreadable_body", "no_embedding_key", "null_embedding",
     "empty_embedding", "vector"}

ZeroVector == [kind |-> "zeros", dim |-> EmbeddingDimension]

\* main_with_opensearch: `embedding = response_body.get('embedding')`,
\* `if not embedding: raise ValueError`, all inside the try
EmbeddingOpensearch(outcome, dim) ==
    IF outcome = "vector" THEN [kind |-> "vector", dim |-> dim] ELSE ZeroVector

\* main_container: `return response_body['embedding']` inside the try: a
\* missing key raises KeyError, a null or empty value is returned as it is
EmbeddingContainer(outcome, dim) ==
    IF outcome = "vector" THEN [kind |-> "vector", dim |-> dim]
    ELSE IF outcome = "null_embedding" THEN [kind |-> "None", dim |-> 0]
    ELSE IF outcome = "empty_embedding" THEN [kind |-> "vector", dim |-> 0]
    ELSE ZeroVector

\* the invoke_model call and the rest of create_embedding; the caller appends
\* the returned value to its list of embeddings
create_embedding_return ==
    /\ e_pc = "invoking"
    /\ \E outcome \in RemoteOutcomes, dim \in ReturnedDimensions :
          /\ e_outcome' = outcome
          /\ e_result' = IF e_variant = "opensearch"
                         THEN EmbeddingOpensearch(outcome, dim)
                         ELSE EmbeddingContainer(outcome, dim)
    /\ e_embeddings' = Append(e_embeddings, e_result')
    /\ e_pc' = "returned"
    /\ UNCHANGED <<e_variant, e_sent, e_calls>>
    /\ UNCHANGED outsideEmbed

NextEmbed ==
    \/ create_embedding_call
    \/ create_embedding_return

SpecEmbed == Init /\ [][NextEmbed]_vars

\* ================================== main_with_opensearch.py, index operations
\* startup_event: initialize_opensearch_index creates the index, or fails and
\* only logs
startup_event ==
    /\ x_pc = "startup"
    /\ x_pc' = "idle"
    /\ x_exists' \in BOOLEAN
    /\ UNCHANGED <<x_docs, x_op, x_creates, x_attempts, x_failure, x_result>>
    /\ UNCHANGED x_log
    /\ UNCHANGED outsideIndex

\* an operation may start when the service is up and no other one is running
CanCall == x_pc \in {"idle", "done"} /\ Len(x_log) < MaxIndexOps

\* the index is deleted from outside the operation (DELETE /documents deletes
\* it before re-creating it; src/fix_opensearch_index.py deletes it too)
index_deleted ==
    /\ x_exists
    /\ x_pc \notin {"startup", "done"}
    /\ x_exists' = FALSE
    /\ x_docs' = 0
    /\ UNCHANGED <<x_op, x_pc, x_creates, x_attempts, x_failure, x_result>>
    /\ UNCHANGED x_log
    /\ UNCHANGED outsideIndex

\* what opensearch_client.search answers: index_not_found_exception when the
\* index is missing, otherwise the hits or some other error
SearchOutcomes(exists) ==
    IF exists THEN {"ok", "other"} ELSE {"index_not_found"}

\* the list built from a successful search
Hits(docs) == IF docs > 0 THEN "hits" ELSE "empty"

\* search_similar_chunks is called
search_similar_chunks_call ==
    /\ CanCall
    /\ x_op' = "search"
    /\ x_log' = Append(x_log, "search")
    /\ x_pc' = "searching"
    /\ x_creates' = 0
    /\ x_attempts' = 0
    /\ x_failure' = "none"
    /\ x_result' = "none"
    /\ UNCHANGED <<x_exists, x_docs>>
    /\ UNCHANGED outsideIndex

\* search_similar_chunks: the search call; every exception is logged and
\* answered with []
search_similar_chunks_search ==
    /\ x_op = "search"
    /\ x_pc = "searching"
    /\ x_attempts' = x_attempts + 1
    /\ \E outcome \in SearchOutcomes(x_exists) :
          IF outcome = "ok"
          THEN /\ x_result' = Hits(x_docs)
               /\ UNCHANGED x_failure
          ELSE /\ x_result' = "empty"
               /\ x_failure' = outcome
    /\ x_pc' = "done"
    /\ UNCHANGED <<x_exists, x_docs, x_op, x_creates>>
    /\ UNCHANGED x_log
    /\ UNCHANGED outsideIndex

\* get_all_documents_from_opensearch up to its search: when indices.exists
\* says no, the index is created (initialize_opensearch_index only logs a
\* failure) and [] is returned; when the check itself raises, [] is returned
get_all_documents_check ==
    /\ CanCall
    /\ x_op' = "get_all"
    /\ x_log' = Append(x_log, "get_all")
    /\ \/ /\ x_exists
          /\ x_pc' = "searching"
          /\ x_creates' = 0
          /\ x_result' = "none"
          /\ UNCHANGED <<x_exists, x_docs>>
       \/ /\ ~x_exists
          /\ x_creates' = 1
          /\ x_exists' \in BOOLEAN
          /\ x_result' = "empty"
          /\ x_pc' = "done"
          /\ UNCHANGED x_docs
       \/ /\ x_result' = "empty"
          /\ x_creates' = 0
          /\ x_pc' = "done"
          /\ UNCHANGED <<x_exists, x_docs>>
    /\ x_attempts' = 0
    /\ x_failure' = "none"
    /\ UNCHANGED outsideIndex

\* get_all_documents_from_opensearch: the search call; on
\* index_not_found_exception the `except` creates the index and returns []
\* without searching again, on any other exception it returns []
get_all_documents_search ==
    /\ x_op = "get_all"
    /\ x_pc = "searching"
    /\ x_attempts' = x_attempts + 1
    /\ \E outcome \in SearchOutcomes(x_exists) :
          IF outcome = "ok"
          THEN /\ x_result' = Hits(x_docs)
               /\ UNCHANGED <<x_failure, x_creates, x_exists>>
          ELSE /\ x_result' = "empty"
               /\ x_failure' = outcome
               /\ IF outcome = "index_not_found"
                  THEN /\ x_creates' = x_creates + 1
                       /\ x_exists' \in BOOLEAN
                  ELSE UNCHANGED <<x_creates, x_exists>>
    /\ x_pc' = "done"
    /\ UNCHANGED <<x_docs, x_op>>
    /\ UNCHANGED x_log
    /\ UNCHANGED outsideIndex

\* store_document_chunks_in_opensearch up to the bulk call: a missing index
\* is created first (a failure to create is only logged)
store_document_chunks_check ==
    /\ CanCall
    /\ x_op' = "store"
    /\ x_log' = Append(x_log, "store")
    /\ x_pc' = "storing"
    /\ IF x_exists
       THEN /\ x_creates' = 0
            /\ UNCHANGED x_exists
       ELSE /\ x_creates' = 1
            /\ x_exists' \in BOOLEAN
    /\ x_attempts' = 0
    /\ x_failure' = "none"
    /\ x_result' = "none"
    /\ UNCHANGED x_docs
    /\ UNCHANGED outsideIndex

\* store_document_chunks_in_opensearch: the bulk call; it returns True when
\* the response reports no error, False on errors and on any exception
store_document_chunks_bulk ==
    /\ x_op = "store"
    /\ x_pc = "storing"
    /\ \/ /\ x_exists
          /\ x_docs' = IF x_docs < MaxDocs THEN x_docs + 1 ELSE x_docs
          /\ x_result' = "stored"
       \/ /\ x_result' = "not_stored"
          /\ UNCHANGED x_docs
    /\ x_pc' = "done"
    /\ UNCHANGED <<x_exists, x_op, x_creates, x_attempts, x_failure>>
    /\ UNCHANGED x_log
    /\ UNCHANGED outsideIndex

NextIndex ==
    \/ startup_event
    \/ store_document_chunks_check
    \/ store_document_chunks_bulk
    \/ index_deleted
    \/ search_similar_chunks_call
    \/ search_similar_chunks_search
    \/ get_all_documents_check
    \/ get_all_documents_search

SpecIndex == Init /\ [][NextIndex]_vars

\* ============================================================== the chunkers
\* main_with_opensearch.chunk_text (characters), enhanced_main.create_text_chunks
\* and OptimizedStorageManager.create_text_chunks (words)
Chars == {"a", " ", "."}
Terminators == {".", "!", "?"}
Texts == UNION {[1..n -> Chars] : n \in 0..MaxTextLen}
\* the small sizes, and the smallest size for which the storage chunker's
\* step `chunk_size - 100` is positive
ChunkSizes == (1..MaxChunkSize) \cup {StorageOverlap, StorageOverlap + 1}
ChunkVariants == {"opensearch", "enhanced", "storage"}

SetMax(S) == CHOOSE x \in S : \A y \in S : y <= x
Least(a, b) == IF a < b THEN a ELSE b

\* str.strip()
RECURSIVE LStrip(_)
LStrip(s) == IF s # <<>> /\ Head(s) = " " THEN LStrip(Tail(s)) ELSE s
RECURSIVE RStrip(_)
RStrip(s) == IF s # <<>> /\ s[Len(s)] = " " THEN RStrip(SubSeq(s, 1, Len(s) - 1)) ELSE s
Strip(s) == LStrip(RStrip(s))

\* str.split(): the maximal runs of non-whitespace characters
RECURSIVE SplitFrom(_, _, _)
SplitFrom(s, word, words) ==
    IF s = <<>> THEN (IF word = <<>> THEN words ELSE Append(words, word))
    ELSE IF Head(s) = " "
         THEN SplitFrom(Tail(s), <<>>, IF word = <<>> THEN words ELSE Append(words, word))
         ELSE SplitFrom(Tail(s), Append(word, Head(s)), words)
Split(s) == SplitFrom(s, <<>>, <<>>)

\* ' '.join(words)
RECURSIVE Join(_)
Join(words) ==
    IF words = <<>> THEN <<>>
    ELSE IF Len(words) = 1 THEN words[1]
    ELSE words[1] \o <<" ">> \o Join(Tail(words))

\* a slice index as Python normalises it (0-based, negative from the end)
SliceIndex(s, i) == IF i < 0 THEN (IF i + Len(s) < 0 THEN 0 ELSE i + Len(s)) ELSE Least(i, Len(s))
\* s[a:b]
Slice(s, a, b) == SubSeq(s, SliceIndex(s, a) + 1, SliceIndex(s, b))
\* s.rfind(ch, a, b)
RFind(s, ch, a, b) ==
    SetMax({-1} \cup {i \in SliceIndex(s, a)..(SliceIndex(s, b) - 1) : s[i + 1] = ch})

\* the length the chunker measures against chunk_size: characters in
\* chunk_text, words in the two create_text_chunks
MeasuredLength(variant, text) ==
    IF variant = "opensearch" THEN Len(text) ELSE Len(Split(text))

\* range(0, n, step) for step > 0
RangeFromZero(n, step) == {i \in 0..(n - 1) : i % step = 0}

\* the loop of the two create_text_chunks over range(0, len(words), step)
WordChunks(words, size, step, keep_empty) ==
    LET starts == RangeFromZero(Len(words), step)
        chunkAt(k) == Join(SubSeq(words, (k - 1) * step + 1, Least((k - 1) * step + size, Len(words))))
        all == [k \in 1..Cardinality(starts) |-> chunkAt(k)]
    IN IF keep_empty THEN all ELSE SelectSeq(all, LAMBDA c : Strip(c) # <<>>)

chunk_call ==
    /\ c_pc = "idle"
    /\ \E v \in ChunkVariants, t \in Texts, size \in ChunkSizes :
          \E overlap \in 0..(Least(size, MaxChunkSize + 1) - 1) :
             /\ c_variant' = v
             /\ c_text' = t
             /\ c_size' = size
             \* OptimizedStorageManager.create_text_chunks has no overlap
             \* parameter: it is always 100
             /\ c_overlap' = IF v = "storage" THEN StorageOverlap ELSE overlap
    /\ c_pc' = "called"
    /\ c_start' = 0
    /\ c_chunks' = <<>>
    /\ c_raised' = FALSE
    /\ UNCHANGED outsideChunk

\* enhanced_main.create_text_chunks
create_text_chunks ==
    /\ c_pc = "called"
    /\ c_variant = "enhanced"
    /\ c_chunks' = WordChunks(Split(c_text), c_size, c_size - c_overlap, FALSE)
    /\ c_pc' = "returned"
    /\ UNCHANGED <<c_variant, c_text, c_size, c_overlap, c_start, c_raised>>
    /\ UNCHANGED outsideChunk

\* OptimizedStorageManager.create_text_chunks: range() raises ValueError for
\* step 0 and is empty for a negative step
storage_create_text_chunks ==
    /\ c_pc = "called"
    /\ c_variant = "storage"
    /\ LET step == c_size - StorageOverlap IN
          /\ c_raised' = (step = 0)
          /\ c_chunks' = IF step > 0 THEN WordChunks(Split(c_text), c_size, step, TRUE) ELSE <<>>
    /\ c_pc' = "returned"
    /\ UNCHANGED <<c_variant, c_text, c_size, c_overlap, c_start>>
    /\ UNCHANGED outsideChunk

\* chunk_text up to the loop: `if len(text) <= chunk_size: return [text]`
chunk_text_begin ==
    /\ c_pc = "called"
    /\ c_variant = "opensearch"
    /\ IF Len(c_text) <= c_size
       THEN /\ c_chunks' = <<c_text>>
            /\ c_pc' = "returned"
       ELSE /\ c_chunks' = <<>>
            /\ c_pc' = "loop"
    /\ UNCHANGED <<c_variant, c_text, c_size, c_overlap, c_start, c_raised>>
    /\ UNCHANGED outsideChunk

\* one pass of chunk_text's `while start < len(text)`
chunk_text_iteration ==
    /\ c_pc = "loop"
    /\ Len(c_chunks) < MaxChunks
    /\ LET naive == c_start + c_size
           sentence_end == SetMax({RFind(c_text, ch, c_start, naive) : ch \in Terminators})
           end == IF naive < Len(c_text) /\ sentence_end > c_start + c_size - SentenceWindow
                  THEN sentence_end + 1
                  ELSE naive
           chunk == Strip(Slice(c_text, c_start, end))
       IN /\ c_chunks' = IF chunk # <<>> THEN Append(c_chunks, chunk) ELSE c_chunks
          /\ c_start' = end - c_overlap
          /\ c_pc' = IF end - c_overlap >= Len(c_text) THEN "returned" ELSE "loop"
    /\ UNCHANGED <<c_variant, c_text, c_size, c_overlap, c_raised>>
    /\ UNCHANGED outsideChunk

NextChunk ==
    \/ chunk_call
    \/ create_text_chunks
    \/ storage_create_text_chunks
    \/ chunk_text_begin
    \/ chunk_text_iteration

SpecChunk == Init /\ [][NextChunk]_vars

\* ====================================== main_container.py, in-memory search
\* A stored document: its position of insertion, whether its content is
\* non-empty, and the cosine similarity (in tenths) of its embedding to the
\* question asked.
StoredDocuments(n) == [id : {n}, content : BOOLEAN, cosine : ScoreLevels]

\* process_pdf_batch appends the documents processed with success
process_pdf_batch ==
    /\ Len(document_store) < MaxStore
    /\ \E doc \in StoredDocuments(Len(document_store) + 1) :
          document_store' = Append(document_store, doc)
    /\ s_pc' = "idle"
    /\ UNCHANGED <<embeddings_store, s_top_k, s_result>>
    /\ UNCHANGED outsideSearch

\* create_knowledge_base rebuilds embeddings_store from the documents that
\* have content, one embedded chunk for each
create_knowledge_base ==
    /\ document_store # <<>>
    /\ embeddings_store' = SelectSeq(document_store, LAMBDA doc : doc.content)
    /\ s_pc' = "idle"
    /\ UNCHANGED <<document_store, s_top_k, s_result>>
    /\ UNCHANGED outsideSearch

clear_documents ==
    /\ document_store # <<>>
    /\ document_store' = <<>>
    /\ embeddings_store' = <<>>
    /\ s_pc' = "idle"
    /\ UNCHANGED <<s_top_k, s_result>>
    /\ UNCHANGED outsideSearch

FirstK(s, k) == SubSeq(s, 1, IF k < Len(s) THEN k ELSE Len(s))

\* the find_relevant_documents in force (the second definition of the module):
\* the documents with content in insertion order, each with the mock score
RelevantDocs(store) ==
    LET usable == SelectSeq(store, LAMBDA doc : doc.content)
    IN [i \in 1..Len(usable) |-> [document |-> usable[i], similarity |-> MockSimilarity]]

find_relevant_documents ==
    /\ \E top_k \in 1..MaxResults :
          /\ s_top_k' = top_k
          /\ s_result' = IF document_store = <<>> THEN <<>>
                         ELSE FirstK(RelevantDocs(document_store), top_k)
    /\ s_pc' = "returned"
    /\ UNCHANGED <<document_store, embeddings_store>>
    /\ UNCHANGED outsideSearch

NextSearch ==
    \/ process_pdf_batch
    \/ create_knowledge_base
    \/ clear_documents
    \/ find_relevant_documents

SpecSearch == Init /\ [][NextSearch]_vars

\* ===================================================================== claims
\* the terminal statuses of the job state machine
TerminalStatuses == {"completed", "completed_with_errors", "failed", "cancelled"}
Sum == processed + failed
JobExists == status # "none"
NoCancelYet == cancel_resp.code = 0
\* the items of `results` recorded as failed
FailedResults == {k \in 1..Len(results) : results[k].status = "failed"}
\* the run of the job is over: the sync handler answered, or
\* process_pdfs_background returned
RunEnded == response = "completed" \/ bgpc = "done"
\* a cancel request was accepted while the job was queued or processing
CancelObserved ==
    cancel_resp.code = 200 /\ cancel_resp.before \in {"queued", "processing"}

\* C1: in every reachable state of a job, processed_count + failed_count <=
\* total_items.
C1_CountsWithinTotal == JobExists => Sum <= total_pdfs

\* C1 witness: a background job of several items drained under a cancel request,
\* with successes and failures, the counters at the total.
C1_Witness ==
    /\ bgpc = "done" /\ total_pdfs >= 3
    /\ processed >= 1 /\ failed >= 1 /\ Sum = total_pdfs
    /\ cancel_resp.code = 200 /\ status_resp.code = 200

C3_StatusMachine ==
    [][ \/ status' = status
        \/ status = "none" /\ status' \in {"queued", "processing"}
        \/ status = "queued" /\ status' \in {"processing", "cancelled"}
        \/ status = "processing" /\ status' \in TerminalStatuses ]_vars

\* C4: a cancel request against a job in a terminal status is rejected with an
\* error and leaves the status unchanged.
C4_CancelRejectedWhenTerminal ==
    [][ (status \in TerminalStatuses /\ cancel_resp' # cancel_resp)
            => (cancel_resp'.code = 400 /\ status' = status) ]_vars

\* C5: once a cancel of a queued or processing job has been observed, no item
\* task that had not started yet enters the semaphore-guarded section.
C5_NoDispatchAfterCancel ==
    [][ CancelObserved =>
            \A i \in Items : taskpc[i] \in {"none", "created"}
                                => taskpc'[i] \in {"none", "created"} ]_vars

\* item tasks inside the semaphore-guarded section of the batch
BatchRunning == {i \in BatchItems : b_task[i] = "running"}

\* C6: at no point of a batch do more item tasks execute inside the
\* semaphore-guarded section than the limit the semaphore was created with, for
\* any number of links and any completion order.
C6_ConcurrencyBound == Cardinality(BatchRunning) <= b_limit

\* C6 witness: simple_bedrock_main's batch with the semaphore exhausted (3 tasks
\* inside) while a later task waits and an earlier one has already finished
\* out of order.
C6_Witness ==
    /\ b_service = "upload"
    /\ Cardinality(BatchRunning) = UploadSemaphoreLimit
    /\ b_sem = 0
    /\ \E i \in BatchItems : b_task[i] = "created"
    /\ b_task[1] = "running"

\* C7: a run of N items of which M fail ends with processed = N - M and
\* failed = M, and the final status is completed_with_errors iff M > 0 and
\* completed iff M = 0, on the background path and on the sync path (stated for
\* the runs no cancel request interfered with).
C7_FinalCountsAndStatus ==
    (RunEnded /\ NoCancelYet) =>
        LET M == Cardinality(FailedResults)
        IN  /\ Len(results) = total_pdfs
            /\ processed = total_pdfs - M
            /\ failed = M
            /\ (status = "completed_with_errors") <=> (M > 0)
            /\ (status = "completed") <=> (M = 0)

\* C8: a submission of 0 items yields a job that is completed at once with
\* processed = 0 and failed = 0, and is not answered with an error.
C8_EmptyBatchCompletes ==
    (n_links = 0 /\ response \notin {"none", "pending"}) =>
        /\ status = "completed" /\ processed = 0 /\ failed = 0
        /\ response \notin {"500:no_links", "500:extract"}

\* C9: a pipeline-level exception raised while the job is running drives the job
\* to failed with the error retained in its error list; it is not left in
\* processing (stated for the runs no cancel request interfered with).
C9_PipelineExceptionFails ==
    (bgpc = "raised_at_start" /\ NoCancelYet) =>
        (status = "failed" /\ Len(error_messages) >= 1)

\* the items of run r that failed (download error, or upload returned False)
FailedItems(r) ==
    {k \in 1..m_links[r] : m_outcome[r][k] \in {"download_error", "upload_failed"}}
RecordedErrors ==
    {processing_status.errors[j] : j \in 1..Len(processing_status.errors)}
\* run 1 of main.py ended and nothing else touched processing_status: no second
\* request was accepted
OnlyRunEnded == m_pc[1] = "done" /\ \A r \in Runs \ {1} : m_pc[r] = "idle"

\* C10: a failing item never aborts the batch: every other item is still
\* processed and each failing item is recorded as a failure against that item
\* (stated for main.py's run at its end, status not cleared in between).
C10_ItemFailuresRecorded ==
    (OnlyRunEnded /\ processing_status.status \in {"completed", "completed_with_warnings"}) =>
        /\ \A k \in 1..m_links[1] : m_outcome[1][k] # "none"
        /\ \A k \in FailedItems(1) : <<1, k>> \in RecordedErrors
        /\ processing_status.processed_count = m_links[1] - Cardinality(FailedItems(1))

\* The same statement for enhanced_main's background run: at the end of the
\* gather every item has exactly one result, and a failed one is in
\* error_messages.
C10_EnhancedItemsRecorded ==
    bgpc = "done" =>
        /\ \A i \in 1..total_pdfs :
              Cardinality({k \in 1..Len(results) : results[k].url = i}) = 1
        /\ \A k \in 1..Len(results) :
              results[k].status = "failed" => InSeq(error_messages, results[k].url)

\* C11: a publish delivers the event to every listener subscribed to the job;
\* a listener whose delivery fails is removed and every remaining listener is
\* still reached, wherever the failing listeners stand in the list (stated
\* for ProgressiveProcessor.send_progress when it returns).
C11_PublishReachesRemaining ==
    pp_pc = "done" =>
        /\ \A c \in pp_subscribed \cap pp_open : c \in pp_delivered
        /\ \A c \in pp_subscribed \ pp_delivered : c \notin Range(active_connections)

\* C12: for every open progress stream, once the job reaches a terminal status
\* (completed, completed_with_errors, failed or cancelled) the streaming loop
\* eventually exits.
C12_StreamTerminates ==
    \A l \in Listeners :
        (hpc[l] = "loop" /\ status \in TerminalStatuses) ~> (hpc[l] = "ended")

\* the answers that say nothing was found
NotFoundAnswers == {"not_found", "not_found_about"}

\* C13: whenever retrieval returns no result or a top result whose score is
\* under 0.5, the response is the not-found message with empty sources and
\* confidence 0, and the generation model is not invoked.
C13_ConfidenceGate ==
    (/\ a_pc = "done"
     /\ a_retrieval = "ok"
     /\ (a_results = <<>> \/ a_results[1] < RelevanceThreshold)) =>
        /\ a_response.kind \in NotFoundAnswers
        /\ a_response.sources = 0
        /\ a_response.confidence = 0
        /\ ~a_invoked

\* the remote tiers invoked in the call
RemoteCalls == Range(g_calls) \ {"heuristic"}

\* C14: if every remote generation call fails, the generation step still
\* returns an answer made by the heuristic responder from the retrieved
\* context (an excerpt or a word count), never an error.
C14_HeuristicWhenAllFail ==
    (g_pc = "done" /\ RemoteCalls \subseteq g_failed) =>
        /\ g_answer.by = "heuristic"
        /\ g_answer.form \in {"contains", "word_count", "based_on"}

\* the tiers of a variant, in the order the spec gives them
TierOrder ==
    IF g_variant = "opensearch" THEN <<"claude", "nova", "titan">>
    ELSE <<"titan", "claude_instant", "heuristic">>
TierRank(t) == CHOOSE j \in 1..Len(TierOrder) : TierOrder[j] = t

\* C15: the tiers are tried strictly in order: a tier is invoked only after
\* every earlier tier has been invoked and has failed, and none is invoked
\* after an earlier one produced the answer.
C15_TiersInOrder ==
    \A j \in 1..Len(g_calls) :
        /\ \A k \in 1..(TierRank(g_calls[j]) - 1) :
              /\ TierOrder[k] \in Range(SubSeq(g_calls, 1, j - 1))
              /\ TierOrder[k] \in g_failed
        /\ \A i \in 1..(j - 1) : g_calls[i] \in g_failed

\* C16: embed(text) never raises: on any failure of the remote embedding call,
\* a response with no embedding included, it returns the zero vector of the
\* fixed dimension 1024.
C16_ZeroVectorOnFailure ==
    (e_pc = "returned" /\ e_outcome # "vector") =>
        e_result = [kind |-> "zeros", dim |-> EmbeddingDimension]

\* C17: when an index operation fails because the index does not exist, the
\* index is (re)created exactly once and the failed operation is retried; a
\* retry that fails as well is surfaced to the caller.
C17_RecreateOnceThenRetry ==
    (x_pc = "done" /\ x_failure = "index_not_found") =>
        /\ x_creates = 1
        /\ x_attempts = 2

\* C18: a failure of the vector-index query during answer() is reported to the
\* caller as an error outcome, distinguishable from the normal result for no
\* relevant documents (the not-found answer with empty sources).
C18_RetrievalFailureDistinct ==
    (a_pc = "done" /\ a_retrieval = "failed") =>
        a_response.kind \notin (NotFoundAnswers \cup {"no_documents"})

C20_ShortTextOneTrimmedChunk ==
    (c_pc = "returned" /\ MeasuredLength(c_variant, c_text) <= c_size) =>
        /\ ~c_raised
        /\ Len(c_chunks) = 1
        /\ c_chunks[1] = Strip(c_text)

\* the tokens a chunker counts: characters in chunk_text, words in the two
\* create_text_chunks
ChunkTokens(variant, s) == IF variant = "opensearch" THEN s ELSE Split(s)
DropFirst(s, n) == SubSeq(s, n + 1, Len(s))
LastTokens(s, n) == SubSeq(s, Len(s) - n + 1, Len(s))
\* the first chunk followed by every later chunk without its first n tokens
RECURSIVE Reassemble(_, _, _, _)
Reassemble(variant, chunks, n, first) ==
    IF chunks = <<>> THEN <<>>
    ELSE (IF first THEN ChunkTokens(variant, Head(chunks))
          ELSE DropFirst(ChunkTokens(variant, Head(chunks)), n))
         \o Reassemble(variant, Tail(chunks), n, FALSE)

\* C21: for every text longer than the chunk size (overlap < size), consecutive
\* returned chunks overlap by exactly `overlap` tokens, and the first chunk
\* followed by the other chunks without their first `overlap` tokens is the
\* original token sequence.
C21_OverlapAndReconstruction ==
    (/\ c_pc = "returned"
     /\ ~c_raised
     /\ c_overlap < c_size
     /\ MeasuredLength(c_variant, c_text) > c_size) =>
        /\ \A k \in 1..(Len(c_chunks) - 1) :
              LET this == ChunkTokens(c_variant, c_chunks[k])
                  next == ChunkTokens(c_variant, c_chunks[k + 1])
              IN /\ Len(this) >= c_overlap
                 /\ Len(next) >= c_overlap
                 /\ LastTokens(this, c_overlap) = SubSeq(next, 1, c_overlap)
        /\ Reassemble(c_variant, c_chunks, c_overlap, TRUE) = ChunkTokens(c_variant, c_text)

\* C22: the in-memory search returns at most k results, ordered by
\* non-increasing similarity to the question, results of equal similarity in
\* insertion order; on an empty store it returns the empty sequence.
C22_SearchOrdered ==
    s_pc = "returned" =>
        /\ Len(s_result) <= s_top_k
        /\ \A i, j \in 1..Len(s_result) :
              i < j =>
                 \/ s_result[i].document.cosine > s_result[j].document.cosine
                 \/ /\ s_result[i].document.cosine = s_result[j].document.cosine
                    /\ s_result[i].document.id < s_result[j].document.id
        /\ (document_store = <<>> => s_result = <<>>)

RECURSIVE SumScores(_)
SumScores(s) == IF s = <<>> THEN 0 ELSE Head(s) + SumScores(Tail(s))
\* the scores of the sources a response includes: the best a_response.sources
\* results (the results come ordered by score)
IncludedScores == SubSeq(a_results, 1, a_response.sources)

\* C23: whenever a generated answer is returned with a confidence, the
\* confidence is the top included source's retrieval score or the mean of the
\* included sources' scores, and not a value computed from the number of
\* sources.
C23_ConfidenceFromScores ==
    (/\ a_pc = "done"
     /\ a_response.kind = "answer"
     /\ a_response.confidence # -1
     /\ a_response.sources > 0) =>
        \/ a_response.confidence = IncludedScores[1]
        \/ a_response.confidence * a_response.sources = SumScores(IncludedScores)

\* the item tasks that got their result (they are sending their progress update
\* or are done), and the results recorded with a given status
TasksWithResult == {i \in 1..total_pdfs : taskpc[i] \in {"publishing", "done"}}
ResultsWith(s) == {k \in 1..Len(results) : results[k].status = s}

\* C24: no counter update of an item task is lost under any interleaving of the
\* tasks: at every moment the counters count exactly the tasks that got their
\* result, so once all N tasks have finished processed + failed = N.
C24_NoLostUpdate ==
    (\E i \in Items : taskpc[i] # "none") =>
        /\ processed = Cardinality(ResultsWith("success"))
        /\ failed = Cardinality(ResultsWith("failed"))
        /\ processed + failed = Cardinality(TasksWithResult)
        /\ (\A i \in 1..total_pdfs : taskpc[i] = "done") => processed + failed = total_pdfs

\* C24 witness: all tasks of a job of at least three items finished, out of
\* input order, with successes and failures
C24_Witness ==
    /\ total_pdfs >= 3
    /\ \A i \in 1..total_pdfs : taskpc[i] = "done"
    /\ results[1].url # 1
    /\ results[Len(results)].url # total_pdfs
    /\ processed >= 1 /\ failed >= 1

\* C25: every progress message an item task emits carries the running totals
\* and a percentage equal to (processed + failed) / total * 100 at the moment
\* of emission, for any completion order of the tasks.
C25_ProgressPercentage ==
    progress_update.current # 0 =>
        progress_update.percentage =
            ((progress_update.processed + progress_update.failed) * 100) \div progress_update.total

\* a later request than r was accepted: the status reported is that request's
LaterRequestAccepted(r) == \E q \in Runs : q > r /\ m_pc[q] # "idle"

\* C26: job records are independent: an item step of one request never changes
\* the status or the counters reported for another request (stated for main.py,
\* where the status reported is the one the latest accepted request set up).
C26_JobsIndependent ==
    [][\A r \in Runs :
          (m_pc[r] = "loop" /\ m_idx'[r] # m_idx[r] /\ LaterRequestAccepted(r))
              => processing_status' = processing_status]_vars

\* runs of process_pdfs_background that were handed over and have not ended
ActiveRuns == {r \in Runs : m_pc[r] \in {"scheduled", "finding", "loop"}}

\* C27: in main.py at most one background run is active at any time (a request
\* arriving before the earlier run ended is rejected).
C27_SingleActiveRun == Cardinality(ActiveRuns) <= 1

\* C28: every job that enters processing eventually reaches a terminal status
\* (every item task terminating), however many listeners fail, connect or
\* disconnect while the job runs.
C28_JobTerminates == (status = "processing") ~> (status \in TerminalStatuses)

\* C29: a progress publish interleaved with a listener subscribing or
\* disconnecting never raises (stated for the two publishes of
\* process_pdfs_background itself, the "started" and the "completed" update).
C29_PublishNeverRaises == bgpc \notin {"raised_at_start", "raised_at_end"}

\* C30: chunk_text terminates for every text and every 0 <= overlap <
\* chunk_size, its start position strictly increasing from one pass of the
\* loop to the next (also when a sentence terminator shortens the chunk).
C30_StartIncreases ==
    [][(c_pc = "loop" /\ c_overlap < c_size) => c_start' > c_start]_vars

====
